---------------------------- MODULE Spec2Model ----------------------------
(***************************************************************************)
(* Model of instagram_bot.py: the posting pipeline of main() (select,      *)
(* validate, stage, verify, publish, story, cleanup, idle), the SFTP       *)
(* staging transport, the publisher calls and the token lookup they make.  *)
(* File names are sequences of one-character strings so that               *)
(* sanitize_filename and is_video_file are computed as the code does.      *)
(***************************************************************************)
EXTENDS Integers, Sequences, FiniteSets, TLC

(***************************************************************************)
(* Bounds of the model.                                                    *)
(***************************************************************************)
\* The clock counts whole days 0..MaxDay.
MaxDay == 2
\* The server answers a container creation with an id in 1..MaxId.
MaxId == 2
\* delete_from_sftp is called up to MaxDeletes times in a row for one name.
MaxDeletes == 3
\* File names given to sanitize_filename have 1..MaxLen characters.
MaxLen == 3
MaxLines == 3

(***************************************************************************)
(* config.py                                                               *)
(***************************************************************************)
MIN_DELAY_MINUTES == 150
MAX_DELAY_MINUTES == 300
SHORT_DELAY_MIN_MINUTES == 1
SHORT_DELAY_MAX_MINUTES == 3
MAX_IMAGE_SIZE_MB == 8
MAX_VIDEO_SIZE_MB == 100
MB_TO_BYTES == 1024 * 1024
TOKEN_EXPIRY_WARNING_DAYS == 7
SECONDS_IN_A_MINUTE == 60
WAIT_CHECK_INTERVAL_SECONDS == 60
LONG_LIVED_TOKEN_DURATION_DAYS == 60
VIDEO_EXTENSIONS ==
    { <<".", "m", "p", "4">>, <<".", "a", "v", "i">>, <<".", "m", "k", "v">>,
      <<".", "m", "o", "v">>, <<".", "w", "m", "v">>, <<".", "f", "l", "v">>,
      <<".", "w", "e", "b", "m">> }

(***************************************************************************)
(* Characters.  Python's str.strip() removes whitespace, \w in a str       *)
(* pattern matches every Unicode letter, digit and the underscore, and     *)
(* str.lower() maps the cased letters.                                     *)
(***************************************************************************)
Whitespace == {" "}
AsciiUpper == {"A", "G", "J", "M", "P", "V"}
AsciiLower == {"a", "b", "c", "e", "f", "g", "i", "j", "k", "l", "m", "n",
               "o", "p", "v", "w"}
AsciiDigit == {"1", "2", "4"}
NonAsciiLetter == {"é"}
WordChar == AsciiUpper \cup AsciiLower \cup AsciiDigit \cup NonAsciiLetter \cup {"_"}

LowerChar(c) ==
    CASE c = "A" -> "a"
      [] c = "G" -> "g"
      [] c = "J" -> "j"
      [] c = "M" -> "m"
      [] c = "P" -> "p"
      [] c = "V" -> "v"
      [] OTHER -> c

StrLower(s) == [i \in 1..Len(s) |-> LowerChar(s[i])]

RECURSIVE LStrip(_, _)
LStrip(s, chars) ==
    IF s # <<>> /\ Head(s) \in chars THEN LStrip(Tail(s), chars) ELSE s

RECURSIVE RStrip(_, _)
RStrip(s, chars) ==
    IF s # <<>> /\ s[Len(s)] \in chars
    THEN RStrip(SubSeq(s, 1, Len(s) - 1), chars)
    ELSE s

Strip(s, chars) == RStrip(LStrip(s, chars), chars)

\* str.rfind('.') as a 1-based index, 0 when there is no dot.
RFindDot(s) ==
    LET dots == {i \in 1..Len(s) : s[i] = "."}
    IN  IF dots = {} THEN 0 ELSE CHOOSE i \in dots : \A j \in dots : j <= i

\* os.path.splitext on a base name: the extension starts at the last dot,
\* unless only dots come before it.
SplitExt(s) ==
    LET d == RFindDot(s)
    IN  IF d > 0 /\ \E j \in 1..(d - 1) : s[j] # "."
        THEN <<SubSeq(s, 1, d - 1), SubSeq(s, d, Len(s))>>
        ELSE <<s, <<>>>>

\* re.sub(r'[^\w\.-]', '_', name)
ReplaceSpecial(s) ==
    [i \in 1..Len(s) |->
        IF s[i] \in WordChar \cup {".", "-"} THEN s[i] ELSE "_"]

\* re.sub(r'_+', '_', name)
RECURSIVE CollapseUnderscores(_)
CollapseUnderscores(s) ==
    IF Len(s) < 2 THEN s
    ELSE IF s[1] = "_" /\ s[2] = "_" THEN CollapseUnderscores(Tail(s))
    ELSE <<s[1]>> \o CollapseUnderscores(Tail(s))

sanitize_filename(filename) ==
    LET stripped == Strip(filename, Whitespace)
        parts == SplitExt(stripped)
        name == Strip(parts[1], Whitespace)
        sanitized_name ==
            Strip(CollapseUnderscores(ReplaceSpecial(name)), {"_"})
    IN  sanitized_name \o StrLower(parts[2])

\* file_name[file_name.rfind('.'):] : with no dot rfind gives -1 and the
\* slice is the last character.
is_video_file(file_name) ==
    LET d == RFindDot(file_name)
        file_extension ==
            IF d > 0 THEN SubSeq(file_name, d, Len(file_name))
            ELSE IF file_name = <<>> THEN <<>>
            ELSE <<file_name[Len(file_name)]>>
    IN  StrLower(file_extension) \in VIDEO_EXTENSIONS


(***************************************************************************)
(* Local media files: a name and os.path.getsize.                          *)
(***************************************************************************)
ImageAtCeiling ==
    [name |-> <<"a", " ", "b", ".", "J", "P", "G">>,
     size |-> MAX_IMAGE_SIZE_MB * MB_TO_BYTES]
VideoAtCeiling ==
    [name |-> <<"v", "!", ".", "m", "p", "4">>,
     size |-> MAX_VIDEO_SIZE_MB * MB_TO_BYTES]
ImageTooLarge ==
    [name |-> <<"c", ".", "p", "n", "g">>,
     size |-> MAX_IMAGE_SIZE_MB * MB_TO_BYTES + 1]
LocalUniverse == {ImageAtCeiling, VideoAtCeiling, ImageTooLarge}
NoFile == [name |-> <<>>, size |-> 0]
NoName == <<>>

\* Mutant: a file exactly at the ceiling is rejected.
validate_media_file_Exclusive(file, existing) ==
    IF file \notin existing THEN <<FALSE, "File does not exist">>
    ELSE IF is_video_file(file.name)
    THEN IF file.size >= MAX_VIDEO_SIZE_MB * MB_TO_BYTES
         THEN <<FALSE, "Video too large">>
         ELSE <<TRUE, "Valid">>
    ELSE IF file.size >= MAX_IMAGE_SIZE_MB * MB_TO_BYTES
         THEN <<FALSE, "Image too large">>
         ELSE <<TRUE, "Valid">>

\* validate_media_file: <<is_valid, message>>.
validate_media_file(file, existing) ==
    IF file \notin existing THEN <<FALSE, "File does not exist">>
    ELSE IF is_video_file(file.name)
    THEN IF file.size > MAX_VIDEO_SIZE_MB * MB_TO_BYTES
         THEN <<FALSE, "Video too large">>
         ELSE <<TRUE, "Valid">>
    ELSE IF file.size > MAX_IMAGE_SIZE_MB * MB_TO_BYTES
         THEN <<FALSE, "Image too large">>
         ELSE <<TRUE, "Valid">>

\* test_url_accessibility: a HEAD request, then a GET when the HEAD gave 200.
HeadOutcomes == {"200", "404", "timeout", "request_exception"}
GetOutcomes == {"response", "request_exception"}
test_url_accessibility(head, get) ==
    IF head = "200" THEN get = "response" ELSE FALSE

(***************************************************************************)
(* Token Store.  The persisted record is read afresh by every              *)
(* get_current_access_token call.                                          *)
(***************************************************************************)
NoToken == "None"
NoExpiry == -1
NoTokenFile == [access_token |-> NoToken, expires_at |-> NoExpiry, exists |-> FALSE]
TokenFiles ==
    {NoTokenFile}
    \cup {[access_token |-> NoToken, expires_at |-> NoExpiry, exists |-> TRUE]}
    \cup {[access_token |-> "T1", expires_at |-> e, exists |-> TRUE] :
            e \in {NoExpiry} \cup
                  (TOKEN_EXPIRY_WARNING_DAYS .. TOKEN_EXPIRY_WARNING_DAYS + MaxDay)}

\* InstagramTokenManager.__init__ without initial_token, and load_token_from_file.
TokenManager(file) ==
    IF file.exists
    THEN [current_token |-> file.access_token, token_expires_at |-> file.expires_at]
    ELSE [current_token |-> NoToken, token_expires_at |-> NoExpiry]

\* The answers of the live validation call: 200 with a JSON body, 200 with a
\* body response.json() cannot parse, another status, a request exception.
LiveOutcomes == {"200", "200_nojson", "400", "exception"}

\* Mutant: every 200 answer counts, parsed or not.
get_token_info_StatusOnly(mgr, live) ==
    IF mgr.current_token = NoToken THEN FALSE ELSE live \in {"200", "200_nojson"}

\* get_token_info() is not None.
get_token_info(mgr, live) ==
    IF mgr.current_token = NoToken THEN FALSE ELSE live = "200"

\* The requests get_token_info makes.
InfoRequests(m) == IF m.current_token = NoToken THEN <<>> ELSE <<"GET me">>

\* The manager after get_token_info: a 200 answer sets the expiry estimate
\* (line 120) before the body is parsed (line 121).
ManagerAfterInfo(m, today, live) ==
    IF m.current_token # NoToken /\ live \in {"200", "200_nojson"}
    THEN [m EXCEPT !.token_expires_at = today + LONG_LIVED_TOKEN_DURATION_DAYS]
    ELSE m

\* Mutant: the warning horizon itself still counts as valid.
is_token_valid_Strict(mgr, today, live) ==
    IF mgr.current_token = NoToken THEN FALSE
    ELSE IF mgr.token_expires_at = NoExpiry THEN get_token_info(mgr, live)
    ELSE ~(mgr.token_expires_at < today + TOKEN_EXPIRY_WARNING_DAYS)

is_token_valid(mgr, today, live) ==
    IF mgr.current_token = NoToken THEN FALSE
    ELSE IF mgr.token_expires_at = NoExpiry THEN get_token_info(mgr, live)
    ELSE ~(mgr.token_expires_at <= today + TOKEN_EXPIRY_WARNING_DAYS)

get_valid_token(mgr, today, live) ==
    IF is_token_valid(mgr, today, live) THEN mgr.current_token ELSE NoToken

get_current_access_token(file, today, live) ==
    get_valid_token(TokenManager(file), today, live)

\* The manager after is_token_valid or get_valid_token.
ManagerAfterValid(m, today, live) ==
    IF m.current_token # NoToken /\ m.token_expires_at = NoExpiry
    THEN ManagerAfterInfo(m, today, live)
    ELSE m

\* save_token_to_file: the record afterwards.  A failure is caught inside:
\* open() failed and the record is as before, or the file was opened for
\* writing and json.dump failed, which leaves a record that does not load.
WriteOutcomes == {"written", "open_error", "dump_error"}
save_token_to_file(m, file, write) ==
    CASE write = "written" ->
             [access_token |-> m.current_token, expires_at |-> m.token_expires_at,
              exists |-> TRUE]
      [] write = "open_error" -> file
      [] write = "dump_error" ->
             [access_token |-> NoToken, expires_at |-> NoExpiry, exists |-> TRUE]

\* InstagramTokenManager.__init__ with an initial_token (NoToken for none).
ManagerAfterInit(file, initial_token, today, live) ==
    IF file.exists THEN TokenManager(file)
    ELSE IF initial_token # NoToken
    THEN ManagerAfterInfo([current_token |-> initial_token, token_expires_at |-> NoExpiry],
                          today, live)
    ELSE TokenManager(file)

FileAfterInit(file, initial_token, today, live, write) ==
    IF ~file.exists /\ initial_token # NoToken
    THEN save_token_to_file(ManagerAfterInit(file, initial_token, today, live), file, write)
    ELSE file

\* Mutant: get_current_access_token hands a configured token to the manager.
LookupFile_Bootstrap(file, today, live, write) ==
    FileAfterInit(file, "T0", today, live, write)

\* The record after get_current_access_token: its manager is built with no
\* initial_token.
LookupFile(file, today, live, write) ==
    FileAfterInit(file, NoToken, today, live, write)

\* exchange_for_long_lived_token: the answers of the exchange endpoint.
ExchangeOutcomes == {"200_token", "200_no_token", "400", "exception"}
ExchangeOk(answer) == answer = "200_token"

\* Mutant: only the token is replaced.
ManagerAfterExchange_TokenOnly(m, today, answer, new) ==
    IF ExchangeOk(answer) THEN [m EXCEPT !.current_token = new] ELSE m

ManagerAfterExchange(m, today, answer, new) ==
    IF ExchangeOk(answer)
    THEN [current_token |-> new,
          token_expires_at |-> today + LONG_LIVED_TOKEN_DURATION_DAYS]
    ELSE m

FileAfterExchange(m, file, today, answer, new, write) ==
    IF ExchangeOk(answer)
    THEN save_token_to_file(ManagerAfterExchange(m, today, answer, new), file, write)
    ELSE file

\* The records the Token Store is started on: those of TokenFiles and a
\* token whose expiry is anywhere from past to beyond the warning horizon.
TokenStoreFiles ==
    TokenFiles \cup
    {[access_token |-> "T1", expires_at |-> e, exists |-> TRUE] :
        e \in 0 .. (TOKEN_EXPIRY_WARNING_DAYS + MaxDay + 1)}

(***************************************************************************)
\* The requests get_valid_token makes: the live validation of a token with
\* no known expiry.
TokenRequests(m) ==
    IF m.current_token # NoToken /\ m.token_expires_at = NoExpiry
    THEN <<"GET me">> ELSE <<>>

(***************************************************************************)
(* Publisher responses: {'error': ...}, {'id': n}, or a body with neither. *)
(***************************************************************************)
ErrorResponse == [kind |-> "error", id |-> 0]
OtherResponse == [kind |-> "other", id |-> 0]
IdResponse(i) == [kind |-> "id", id |-> i]
NoResponse == [kind |-> "none", id |-> 0]
ServerResponses == {ErrorResponse, OtherResponse} \cup {IdResponse(i) : i \in 1..MaxId}

\* The common body of post_image, post_video, post_story and
\* publish_container: no token gives the local error, otherwise the answer
\* of the one request (a request exception is an error response too).
PublisherCall(token, answer) ==
    IF token = NoToken THEN ErrorResponse ELSE answer

\* Mutant: the request is sent whether or not there is a token.
PublisherRequests_NoShortCircuit(m, token) == TokenRequests(m) \o <<"POST">>

\* The requests of one publisher call: those of the token lookup, then the
\* one POST unless the missing token short-circuits it.
PublisherRequests(m, token) ==
    TokenRequests(m) \o (IF token = NoToken THEN <<>> ELSE <<"POST">>)

HasError(r) == r.kind = "error"
HasId(r) == r.kind = "id"

(***************************************************************************)
(* State.                                                                  *)
(***************************************************************************)
VARIABLES
    pc,              \* position of main()
    now,             \* the clock, in days
    tokenFile,       \* the persisted token record
    dirExists,       \* LOCAL_DIRECTORY_PATH is a directory
    localFiles,      \* regular files in LOCAL_DIRECTORY_PATH
    remoteDir,       \* names in SFTP_REMOTE_DIR_PATH
    igPosts,         \* media published on the account: <<kind, name>>
    selected,        \* the file random_file_info returned in this cycle
    server_filename, \* sanitized_server_filename
    res,             \* res of post_image / post_video
    story_res,       \* story_res of post_story
    calls,           \* the calls made since the cycle started, in order
    cycleStartFiles, \* localFiles when the cycle started
    test_token,      \* test_token of main(): the startup token check
    selectedEarlier, \* the files selected in the cycles before this one
    mgr,             \* an InstagramTokenManager: current_token, token_expires_at
    tokenCall,       \* the last operation on mgr or on the token record
    remaining,       \* scheduled_time - datetime.now() of the current wait, in seconds
    slept,           \* how long the last time.sleep of the wait took, in seconds
    waitRange,       \* <<min_minutes, max_minutes>> of the current wait
    remoteAtStart,   \* remoteDir before the first delete_from_sftp
    hashtags,        \* HashtagManager.hashtags
    selected_hashtags \* selected_hashtags of get_random_hashtags

vars == <<pc, now, tokenFile, dirExists, localFiles, remoteDir, igPosts,
          selected, server_filename, res, story_res, calls, cycleStartFiles,
          test_token, selectedEarlier, mgr, tokenCall, remaining, slept, waitRange,
          remoteAtStart, hashtags, selected_hashtags>>

\* The variables only the specifications of single operations use.
auxVars == <<remaining, slept, waitRange, remoteAtStart, hashtags, selected_hashtags>>

AuxInit ==
    /\ remaining = 0
    /\ slept = 0
    /\ waitRange = <<0, 0>>
    /\ remoteAtStart = {}
    /\ hashtags = <<>>
    /\ selected_hashtags = <<>>

\* A call of the cycle.  For a publisher call, token is what
\* get_current_access_token gave it and net the requests it made, in order.
PublisherRecord(op, name, id, result, token, net) ==
    [op |-> op, name |-> name, id |-> id, result |-> result, lo |-> 0, hi |-> 0,
     token |-> token, net |-> net]
Call(op, name, id, result) == PublisherRecord(op, name, id, result, NoToken, <<>>)
WaitCall(lo, hi) ==
    [op |-> "wait_until_scheduled_time", name |-> NoName, id |-> 0,
     result |-> "due", lo |-> lo, hi |-> hi, token |-> NoToken, net |-> <<>>]

\* No operation on the token store yet.
NoTokenCall ==
    [op |-> "none", ok |-> FALSE, token |-> NoToken, net |-> <<>>, today |-> 0,
     live |-> "none", mgrBefore |-> TokenManager(NoTokenFile),
     fileBefore |-> NoTokenFile, prev |-> [op |-> "none", ok |-> FALSE, net |-> <<>>]]

Init ==
    /\ pc = "Startup"
    /\ now = 0
    /\ tokenFile \in TokenFiles
    /\ dirExists \in BOOLEAN
    /\ localFiles \in SUBSET LocalUniverse
    /\ (~dirExists => localFiles = {})
    /\ remoteDir = {}
    /\ igPosts = {}
    /\ selected = NoFile
    /\ server_filename = NoName
    /\ res = NoResponse
    /\ story_res = NoResponse
    /\ calls = <<>>
    /\ cycleStartFiles = localFiles
    /\ test_token = NoToken
    /\ selectedEarlier = {}
    /\ mgr = TokenManager(NoTokenFile)
    /\ tokenCall = NoTokenCall
    /\ AuxInit

(***************************************************************************)
(* The branches of main(): where control goes after each step.             *)
(***************************************************************************)
\* Mutant: main goes on without a token.
AfterStartup_NoReturn(token) == "SelectFile"

\* if not test_token: ... return
AfterStartup(token) == IF token = NoToken THEN "Exited" ELSE "SelectFile"

\* Mutant: the missing-file test is dropped.
AfterSelect_NoTest(file) == "ValidateFile"

\* if file_name_without_extension and file_name_with_extension and full_path
AfterSelect(file) == IF file = NoFile THEN "Idle" ELSE "ValidateFile"

\* Mutant: a rejected file is deleted.
AfterValidate_RejectDeletes(is_valid) == IF is_valid THEN "Stage" ELSE "CleanupLocal"

\* Mutant: a rejected file ends the cycle through the idle wait.
AfterValidate_RejectToIdle(is_valid) == IF is_valid THEN "Stage" ELSE "Idle"

\* if not is_valid: continue
AfterValidate(is_valid) == IF is_valid THEN "Stage" ELSE "SelectFile"

\* Mutant: a failed upload is tried again.
AfterStage_Retry(raised) == IF raised THEN "Stage" ELSE "VerifyReachable"

\* Mutant: no try/except around upload_to_sftp.
AfterStage_NoExcept(raised) == IF raised THEN "Crashed" ELSE "VerifyReachable"

\* try: upload_to_sftp(full_path) / except Exception: continue
AfterStage(raised) == IF raised THEN "SelectFile" ELSE "VerifyReachable"

\* Mutant: the result of the probe is ignored.
AfterVerify_Ignored(accessible, file_name) ==
    IF is_video_file(file_name) THEN "PostVideo" ELSE "PostImage"

\* if not test_url_accessibility(web_url): delete_from_sftp(...); continue
AfterVerify(accessible, file_name) ==
    IF ~accessible THEN "ProbeFailedCleanup"
    ELSE IF is_video_file(file_name) THEN "PostVideo"
    ELSE "PostImage"

\* Mutant: the container is created after the probe's cleanup.
AfterProbeFailedCleanup_Post == "PostImage"

\* Mutant: no continue after the probe's cleanup.
AfterProbeFailedCleanup_FallThrough == "CleanupLocal"

AfterProbeFailedCleanup == "SelectFile"

\* Mutant: the short wait is not under the else.
AfterPostVideo_AlwaysWait(r) == "ShortWait"

\* if 'error' in res: ... else: short wait
AfterPostVideo(r) == IF HasError(r) THEN "CleanupRemote" ELSE "ShortWait"

AfterShortWait == "CleanupRemote"

\* Mutant: everything but an error goes on to publish_container.
AfterPostImage_PublishWithoutId(r) ==
    IF HasError(r) THEN "CleanupRemote" ELSE "PublishImage"

\* Mutant: a failed image creation skips the cleanup.
AfterPostImage_ErrorToIdle(r) ==
    IF HasError(r) THEN "Idle"
    ELSE IF HasId(r) THEN "PublishImage"
    ELSE "CleanupRemote"

\* if 'error' in res: ... else: if "id" in res: publish_container(res["id"])
AfterPostImage(r) ==
    IF HasError(r) THEN "CleanupRemote"
    ELSE IF HasId(r) THEN "PublishImage"
    ELSE "CleanupRemote"

\* Mutant: the story is created whatever the image publish returned.
AfterPublishImage_Always(r) == "PostStory"

\* if 'error' in publish_res: ... else: post_story(caption, web_url)
AfterPublishImage(r) == IF HasError(r) THEN "CleanupRemote" ELSE "PostStory"

\* Mutant: a failed story creation skips the cleanup.
AfterPostStory_ErrorToIdle(r) ==
    IF HasError(r) THEN "Idle"
    ELSE IF HasId(r) THEN "PublishStory"
    ELSE "CleanupRemote"

\* if 'error' in story_res: ... else: if "id" in story_res: publish_container
AfterPostStory(r) ==
    IF HasError(r) THEN "CleanupRemote"
    ELSE IF HasId(r) THEN "PublishStory"
    ELSE "CleanupRemote"

AfterPublishStory == "CleanupRemote"

\* Mutant: the local deletion is left out.
AfterCleanupRemote_NoLocal == "Idle"

\* delete_from_sftp(sanitized_server_filename) is followed by delete_file(full_path)
AfterCleanupRemote == "CleanupLocal"

AfterCleanupLocal == "Idle"

(***************************************************************************)
(* Staging transport.                                                      *)
(***************************************************************************)
\* upload_to_sftp: what the remote directory holds afterwards and whether
\* the call raised.  The exception can come before the transfer (connect,
\* chdir, listdir), or after it (the second listdir, closing the
\* connection); a transfer that returned may still not be listed.
UploadOutcomes == {"connect_error", "error_after_put", "confirmed", "not_listed"}
UploadRaises(outcome) == outcome \in {"connect_error", "error_after_put"}
UploadRemote(dir, name, outcome) ==
    CASE outcome = "connect_error" -> dir
      [] outcome = "error_after_put" -> dir \cup {name}
      [] outcome = "confirmed" -> dir \cup {name}
      [] outcome = "not_listed" -> dir \ {name}

\* delete_from_sftp: removes the name when it is listed; every exception
\* is caught inside.
DeleteOutcomes == {"done", "sftp_error"}
DeleteRemote(dir, name, outcome) ==
    IF outcome = "done" /\ name \in dir THEN dir \ {name} ELSE dir

\* delete_file: os.remove, OSError caught.
RemoveOutcomes == {"removed", "os_error"}

\* Mutant: os.remove reports success and the file stays.
DeleteLocal_Keeps(files, file, outcome) == files

DeleteLocal(files, file, outcome) ==
    IF outcome = "removed" THEN files \ {file} ELSE files

(***************************************************************************)
(* Actions.                                                                *)
(***************************************************************************)
cycleVars == <<selected, server_filename, res, story_res, calls, cycleStartFiles>>
tokenVars == <<tokenFile, mgr, tokenCall>>
worldVars == <<tokenVars, dirExists, localFiles, remoteDir, igPosts>>

\* main(), lines 654-668: the startup token check.
Startup ==
    /\ pc = "Startup"
    /\ \E live \in LiveOutcomes :
         /\ test_token' = get_current_access_token(tokenFile, now, live)
         /\ pc' = AfterStartup(test_token')
    /\ UNCHANGED <<auxVars, now, selectedEarlier, worldVars, cycleVars>>

\* random_file_info(LOCAL_DIRECTORY_PATH): the start of a cycle.
SelectStep ==
    /\ pc = "SelectFile"
    /\ \E file \in (IF dirExists /\ localFiles # {} THEN localFiles ELSE {NoFile}) :
         /\ selected' = file
         /\ calls' = <<Call("random_file_info", file.name, 0,
                            IF file = NoFile THEN "none" ELSE "file")>>
         /\ pc' = AfterSelect(file)
    /\ cycleStartFiles' = localFiles
    /\ server_filename' = NoName
    /\ res' = NoResponse
    /\ story_res' = NoResponse
    /\ UNCHANGED <<auxVars, now, test_token, worldVars>>

SelectFile == SelectStep /\ UNCHANGED selectedEarlier

\* The same step, remembering the file of the cycle that is over.
SelectFileTracked ==
    /\ SelectStep
    /\ selectedEarlier' = selectedEarlier \cup ({selected} \ {NoFile})

ValidateFile ==
    /\ pc = "ValidateFile"
    /\ LET v == validate_media_file(selected, localFiles)
       IN  /\ calls' = Append(calls, Call("validate_media_file", selected.name, 0, v[2]))
           /\ pc' = AfterValidate(v[1])
    /\ UNCHANGED <<auxVars, now, test_token, selectedEarlier, worldVars, selected, server_filename, res, story_res,
                   cycleStartFiles>>

Stage ==
    /\ pc = "Stage"
    /\ \E outcome \in UploadOutcomes :
         LET name == sanitize_filename(selected.name)
         IN  /\ remoteDir' = UploadRemote(remoteDir, name, outcome)
             /\ server_filename' = IF UploadRaises(outcome) THEN NoName ELSE name
             /\ calls' = Append(calls, Call("upload_to_sftp", name, 0,
                            IF UploadRaises(outcome) THEN "raised" ELSE "returned"))
             /\ pc' = AfterStage(UploadRaises(outcome))
    /\ UNCHANGED <<auxVars, now, test_token, selectedEarlier, tokenVars, dirExists, localFiles, igPosts, selected, res,
                   story_res, cycleStartFiles>>

VerifyReachable ==
    /\ pc = "VerifyReachable"
    /\ \E head \in HeadOutcomes, get \in GetOutcomes :
         LET accessible == test_url_accessibility(head, get)
         IN  /\ calls' = Append(calls, Call("test_url_accessibility", server_filename, 0,
                            IF accessible THEN "True" ELSE "False"))
             /\ pc' = AfterVerify(accessible, selected.name)
    /\ UNCHANGED <<auxVars, now, test_token, selectedEarlier, worldVars, selected, server_filename, res, story_res,
                   cycleStartFiles>>

\* delete_from_sftp(sanitized_server_filename) as main calls it.
RemoteDelete ==
    /\ \E outcome \in DeleteOutcomes :
         /\ remoteDir' = DeleteRemote(remoteDir, server_filename, outcome)
         /\ calls' = Append(calls, Call("delete_from_sftp", server_filename, 0, outcome))
    /\ UNCHANGED <<auxVars, now, test_token, selectedEarlier, tokenVars, dirExists, localFiles, igPosts, selected,
                   server_filename, res, story_res, cycleStartFiles>>

ProbeFailedCleanup ==
    /\ pc = "ProbeFailedCleanup"
    /\ RemoteDelete
    /\ pc' = AfterProbeFailedCleanup

CleanupRemote ==
    /\ pc = "CleanupRemote"
    /\ RemoteDelete
    /\ pc' = AfterCleanupRemote

CleanupLocal ==
    /\ pc = "CleanupLocal"
    /\ \E outcome \in RemoveOutcomes :
         /\ localFiles' = DeleteLocal(localFiles, selected, outcome)
         /\ calls' = Append(calls, Call("delete_file", selected.name, 0, outcome))
    /\ pc' = AfterCleanupLocal
    /\ UNCHANGED <<auxVars, now, test_token, selectedEarlier, tokenVars, dirExists, remoteDir, igPosts, selected,
                   server_filename, res, story_res, cycleStartFiles>>

\* In a creation call the recorded id is the one the response carries; in
\* publish_container it is the creation_id passed.
PostVideo ==
    /\ pc = "PostVideo"
    /\ \E live \in LiveOutcomes, answer \in ServerResponses :
         LET token == get_current_access_token(tokenFile, now, live)
             r == PublisherCall(token, answer)
         IN  /\ res' = r
             /\ calls' = Append(calls,
                    PublisherRecord("post_video", server_filename, r.id, r.kind, token,
                                    PublisherRequests(TokenManager(tokenFile), token)))
             /\ pc' = AfterPostVideo(r)
    /\ UNCHANGED <<auxVars, now, test_token, selectedEarlier, worldVars, selected, server_filename, story_res, cycleStartFiles>>

\* calculate_next_execution_time(lo, hi) and wait_until_scheduled_time.
Wait(lo, hi) ==
    /\ calls' = Append(calls, WaitCall(lo, hi))
    /\ UNCHANGED <<auxVars, now, test_token, selectedEarlier, worldVars, selected, server_filename, res, story_res,
                   cycleStartFiles>>

ShortWait ==
    /\ pc = "ShortWait"
    /\ Wait(SHORT_DELAY_MIN_MINUTES, SHORT_DELAY_MAX_MINUTES)
    /\ pc' = AfterShortWait

PostImage ==
    /\ pc = "PostImage"
    /\ \E live \in LiveOutcomes, answer \in ServerResponses :
         LET token == get_current_access_token(tokenFile, now, live)
             r == PublisherCall(token, answer)
         IN  /\ res' = r
             /\ calls' = Append(calls,
                    PublisherRecord("post_image", server_filename, r.id, r.kind, token,
                                    PublisherRequests(TokenManager(tokenFile), token)))
             /\ pc' = AfterPostImage(r)
    /\ UNCHANGED <<auxVars, now, test_token, selectedEarlier, worldVars, selected, server_filename, story_res, cycleStartFiles>>

\* publish_container(creation_id) for the container of `kind`, answered r;
\* the media is on the account when the server answered with its id.
PublishEffect(kind, creation, r, token) ==
    /\ igPosts' = IF HasId(r) THEN igPosts \cup {<<kind, server_filename>>}
                  ELSE igPosts
    /\ calls' = Append(calls,
           PublisherRecord("publish_container", kind, creation.id, r.kind, token,
                           PublisherRequests(TokenManager(tokenFile), token)))
    /\ UNCHANGED <<auxVars, now, test_token, selectedEarlier, tokenVars, dirExists, localFiles, remoteDir, selected,
                   server_filename, res, story_res, cycleStartFiles>>

PublishImage ==
    /\ pc = "PublishImage"
    /\ \E live \in LiveOutcomes, answer \in ServerResponses :
         LET token == get_current_access_token(tokenFile, now, live)
             r == PublisherCall(token, answer)
         IN  /\ PublishEffect(<<"IMAGE">>, res, r, token)
             /\ pc' = AfterPublishImage(r)

PostStory ==
    /\ pc = "PostStory"
    /\ \E live \in LiveOutcomes, answer \in ServerResponses :
         LET token == get_current_access_token(tokenFile, now, live)
             r == PublisherCall(token, answer)
         IN  /\ story_res' = r
             /\ calls' = Append(calls,
                    PublisherRecord("post_story", server_filename, r.id, r.kind, token,
                                    PublisherRequests(TokenManager(tokenFile), token)))
             /\ pc' = AfterPostStory(r)
    /\ UNCHANGED <<auxVars, now, test_token, selectedEarlier, worldVars, selected, server_filename, res, cycleStartFiles>>

PublishStory ==
    /\ pc = "PublishStory"
    /\ \E live \in LiveOutcomes, answer \in ServerResponses :
         LET token == get_current_access_token(tokenFile, now, live)
             r == PublisherCall(token, answer)
         IN  /\ PublishEffect(<<"STORIES">>, story_res, r, token)
             /\ pc' = AfterPublishStory

\* main(), lines 783-787: the wait between cycles.
Idle ==
    /\ pc = "Idle"
    /\ Wait(MIN_DELAY_MINUTES, MAX_DELAY_MINUTES)
    /\ pc' = "SelectFile"

\* A day passes.
Tick ==
    /\ pc # "Exited"
    /\ now < MaxDay
    /\ now' = now + 1
    /\ UNCHANGED <<auxVars, pc, test_token, selectedEarlier, worldVars, cycleVars>>

Next ==
    \/ Startup
    \/ SelectFile
    \/ ValidateFile
    \/ Stage
    \/ VerifyReachable
    \/ ProbeFailedCleanup
    \/ PostVideo
    \/ ShortWait
    \/ PostImage
    \/ PublishImage
    \/ PostStory
    \/ PublishStory
    \/ CleanupRemote
    \/ CleanupLocal
    \/ Idle
    \/ Tick

Spec == Init /\ [][Next]_vars

\* The same run with selectedEarlier kept up to date.
NextTracked ==
    \/ Startup
    \/ SelectFileTracked
    \/ ValidateFile
    \/ Stage
    \/ VerifyReachable
    \/ ProbeFailedCleanup
    \/ PostVideo
    \/ ShortWait
    \/ PostImage
    \/ PublishImage
    \/ PostStory
    \/ PublishStory
    \/ CleanupRemote
    \/ CleanupLocal
    \/ Idle
    \/ Tick

SpecTracked == Init /\ [][NextTracked]_vars

(***************************************************************************)
(* The run of main() with its waits step by step: the scheduled time is    *)
(* computed, then wait_until_scheduled_time polls the clock and sleeps     *)
(* until it is due.  One stored record, one media file at most.            *)
(***************************************************************************)
\* How much longer than asked one time.sleep can take: not at all, half an
\* interval, a whole interval.
SleepLateness ==
    {0, WAIT_CHECK_INTERVAL_SECONDS \div 2, WAIT_CHECK_INTERVAL_SECONDS}

\* Mutant: the loop also sleeps when the clock is exactly at the scheduled time.
StillWaiting_Inclusive(r) == r >= 0

\* while datetime.now() < scheduled_time
StillWaiting(r) == r > 0

\* calculate_next_execution_time: now + timedelta(minutes=delay_minutes),
\* as seconds from now.
NextExecutionTimes(min_minutes, max_minutes) ==
    {delay_minutes * SECONDS_IN_A_MINUTE : delay_minutes \in min_minutes..max_minutes}

WaitInit ==
    /\ pc = "Startup"
    /\ now = 0
    /\ tokenFile = [access_token |-> "T1",
                    expires_at |-> TOKEN_EXPIRY_WARNING_DAYS + MaxDay, exists |-> TRUE]
    /\ dirExists = TRUE
    /\ localFiles \in {{}, {VideoAtCeiling}, {ImageAtCeiling}}
    /\ remoteDir = {}
    /\ igPosts = {}
    /\ selected = NoFile
    /\ server_filename = NoName
    /\ res = NoResponse
    /\ story_res = NoResponse
    /\ calls = <<>>
    /\ cycleStartFiles = localFiles
    /\ test_token = NoToken
    /\ selectedEarlier = {}
    /\ mgr = TokenManager(NoTokenFile)
    /\ tokenCall = NoTokenCall
    /\ AuxInit

waitFrame == <<remoteAtStart, hashtags, selected_hashtags, now, test_token,
               selectedEarlier, worldVars, selected, server_filename, res, story_res,
               cycleStartFiles>>

ScheduleWait(min_minutes, max_minutes) ==
    /\ remaining' \in NextExecutionTimes(min_minutes, max_minutes)
    /\ slept' = 0
    /\ waitRange' = <<min_minutes, max_minutes>>
    /\ UNCHANGED <<calls, waitFrame>>

\* main(), lines 725-726.
ScheduleShort ==
    /\ pc = "ShortWait"
    /\ ScheduleWait(SHORT_DELAY_MIN_MINUTES, SHORT_DELAY_MAX_MINUTES)
    /\ pc' = "ShortWaitPoll"

\* main(), lines 785-786.
ScheduleIdle ==
    /\ pc = "Idle"
    /\ ScheduleWait(MIN_DELAY_MINUTES, MAX_DELAY_MINUTES)
    /\ pc' = "IdleWaitPoll"

\* One pass of the loop of wait_until_scheduled_time: not due, sleep.
SleepWait ==
    /\ pc \in {"ShortWaitPoll", "IdleWaitPoll"}
    /\ StillWaiting(remaining)
    /\ \E late \in SleepLateness :
         /\ slept' = WAIT_CHECK_INTERVAL_SECONDS + late
         /\ remaining' = remaining - slept'
    /\ UNCHANGED <<pc, waitRange, calls, waitFrame>>

\* The loop test fails: wait_until_scheduled_time returns.
ReturnWait ==
    /\ pc \in {"ShortWaitPoll", "IdleWaitPoll"}
    /\ ~StillWaiting(remaining)
    /\ calls' = Append(calls, WaitCall(waitRange[1], waitRange[2]))
    /\ pc' = IF pc = "ShortWaitPoll" THEN AfterShortWait ELSE "SelectFile"
    /\ UNCHANGED <<remaining, slept, waitRange, waitFrame>>

NextWait ==
    \/ Startup
    \/ SelectFile
    \/ ValidateFile
    \/ Stage
    \/ VerifyReachable
    \/ ProbeFailedCleanup
    \/ PostVideo
    \/ ScheduleShort
    \/ PostImage
    \/ PublishImage
    \/ PostStory
    \/ PublishStory
    \/ CleanupRemote
    \/ CleanupLocal
    \/ ScheduleIdle
    \/ SleepWait
    \/ ReturnWait

SpecWait == WaitInit /\ [][NextWait]_vars

(***************************************************************************)
(* delete_from_sftp on its own, called again and again for one name.       *)
(***************************************************************************)
\* Where the call can fail: connecting or chdir, the first listdir, the
\* remove, the second listdir; or it completes, the name gone or, as the
\* code allows for, still listed.
SftpDeleteOutcomes ==
    {"connect_error", "listdir_error", "remove_error", "relist_error", "completed",
     "still_listed"}

\* Mutant: the remove is sent without looking at the listing.
delete_from_sftp_NoPresenceCheck(dir, file_name, outcome) ==
    LET listing == outcome \notin {"connect_error", "listdir_error"}
        removed == listing /\ file_name \in dir /\ outcome \in {"relist_error", "completed"}
    IN  [dir |-> IF removed THEN dir \ {file_name} ELSE dir,
         removes |-> IF listing THEN 1 ELSE 0,
         result |-> IF ~listing \/ file_name \notin dir THEN "caught"
                    ELSE IF outcome \in {"remove_error", "relist_error"} THEN "caught"
                    ELSE IF outcome = "still_listed" THEN "still_listed"
                    ELSE "deleted"]

\* delete_from_sftp(file_name) on the remote directory dir: the directory
\* afterwards, the remove requests sent, and how the call ended.  The
\* except clause around the whole session catches every exception, so the
\* call never ends "raised".
delete_from_sftp(dir, file_name, outcome) ==
    LET listing == outcome \notin {"connect_error", "listdir_error"}
        present == listing /\ file_name \in dir
        removed == present /\ outcome \in {"relist_error", "completed"}
    IN  [dir |-> IF removed THEN dir \ {file_name} ELSE dir,
         removes |-> IF present THEN 1 ELSE 0,
         result |-> IF ~listing THEN "caught"
                    ELSE IF ~present THEN "skipped"
                    ELSE IF outcome \in {"remove_error", "relist_error"} THEN "caught"
                    ELSE IF outcome = "still_listed" THEN "still_listed"
                    ELSE "deleted"]

RemoteNames == {sanitize_filename(f.name) : f \in LocalUniverse}

SftpInit ==
    /\ pc = "Sftp"
    /\ now = 0
    /\ tokenFile = NoTokenFile
    /\ dirExists = FALSE
    /\ localFiles = {}
    /\ remoteDir \in SUBSET RemoteNames
    /\ igPosts = {}
    /\ selected = NoFile
    /\ server_filename \in RemoteNames
    /\ res = NoResponse
    /\ story_res = NoResponse
    /\ calls = <<>>
    /\ cycleStartFiles = {}
    /\ test_token = NoToken
    /\ selectedEarlier = {}
    /\ mgr = TokenManager(NoTokenFile)
    /\ tokenCall = NoTokenCall
    /\ remaining = 0
    /\ slept = 0
    /\ waitRange = <<0, 0>>
    /\ remoteAtStart = remoteDir
    /\ hashtags = <<>>
    /\ selected_hashtags = <<>>

SftpDelete ==
    /\ pc = "Sftp"
    /\ Len(calls) < MaxDeletes
    /\ \E outcome \in SftpDeleteOutcomes :
         LET r == delete_from_sftp(remoteDir, server_filename, outcome)
         IN  /\ remoteDir' = r.dir
             /\ calls' = Append(calls,
                    Call("delete_from_sftp", server_filename, r.removes, r.result))
    /\ UNCHANGED <<auxVars, pc, now, test_token, selectedEarlier, tokenVars, dirExists,
                   localFiles, igPosts, selected, server_filename, res, story_res,
                   cycleStartFiles>>

SpecSftp == SftpInit /\ [][SftpDelete]_vars

(***************************************************************************)
(* sanitize_filename on its own, on every short name over an alphabet with *)
(* letters of both cases, a digit, a space, punctuation, the dot, the      *)
(* hyphen, the underscore and a non-ASCII letter.                          *)
(***************************************************************************)
NameAlphabet == {"a", "J", "1", " ", "!", "_", ".", "-", "é"}
FileNames == UNION {[1..n -> NameAlphabet] : n \in 1..MaxLen}

SanitizeInit ==
    /\ pc = "Sanitize"
    /\ now = 0
    /\ tokenFile = NoTokenFile
    /\ dirExists = TRUE
    /\ selected \in {[name |-> n, size |-> 0] : n \in FileNames}
    /\ localFiles = {selected}
    /\ remoteDir = {}
    /\ igPosts = {}
    /\ server_filename = NoName
    /\ res = NoResponse
    /\ story_res = NoResponse
    /\ calls = <<>>
    /\ cycleStartFiles = localFiles
    /\ test_token = NoToken
    /\ selectedEarlier = {}
    /\ mgr = TokenManager(NoTokenFile)
    /\ tokenCall = NoTokenCall
    /\ AuxInit

\* upload_to_sftp, lines 566-567: the name the file is staged under.
Sanitize ==
    /\ pc = "Sanitize"
    /\ server_filename' = sanitize_filename(selected.name)
    /\ pc' = "Sanitized"
    /\ UNCHANGED <<auxVars, now, test_token, selectedEarlier, worldVars, selected, res,
                   story_res, calls, cycleStartFiles>>

SpecSanitize == SanitizeInit /\ [][Sanitize]_vars

(***************************************************************************)
(* validate_media_file on its own: files of both classes with sizes around *)
(* both ceilings, present or not.                                          *)
(***************************************************************************)
MediaNames ==
    { <<"a", ".", "J", "P", "G">>, <<"v", ".", "m", "p", "4">>,
      <<"V", ".", "M", "P", "4">>, <<"m", ".", "m", "o", "v">>,
      <<"m", "p", "4">>, <<"v", ".", "m", "p", "4", ".", "p", "n", "g">> }
MediaSizes ==
    {0} \cup
    {c * MB_TO_BYTES + d : c \in {MAX_IMAGE_SIZE_MB, MAX_VIDEO_SIZE_MB}, d \in {-1, 0, 1}}

ValidateInit ==
    /\ pc = "ValidateFile"
    /\ now = 0
    /\ tokenFile = NoTokenFile
    /\ dirExists = TRUE
    /\ selected \in {[name |-> n, size |-> s] : n \in MediaNames, s \in MediaSizes}
    /\ localFiles \in {{selected}, {}}
    /\ remoteDir = {}
    /\ igPosts = {}
    /\ server_filename = NoName
    /\ res = NoResponse
    /\ story_res = NoResponse
    /\ calls = <<>>
    /\ cycleStartFiles = localFiles
    /\ test_token = NoToken
    /\ selectedEarlier = {}
    /\ mgr = TokenManager(NoTokenFile)
    /\ tokenCall = NoTokenCall
    /\ AuxInit

SpecValidate == ValidateInit /\ [][ValidateFile]_vars

(***************************************************************************)
(* HashtagManager on its own: the pool is loaded once from the lines of    *)
(* the hashtag file, then sampled.                                         *)
(***************************************************************************)
DEFAULT_HASHTAG_COUNT == 5

HashtagLines ==
    { <<"#", "a">>, <<" ", "#", "a", " ">>, <<"#", "b">>, <<"#", "c">>,
      <<"a", "#">>, <<>> }
HashtagFiles == UNION {[1..n -> HashtagLines] : n \in 0..MaxLines}
FileNotFound == <<<<"E", "N", "O", "E", "N", "T">>>>

StartsWithHash(line) == Len(line) > 0 /\ line[1] = "#"

\* load_hashtags: the stripped lines that start with "#", in file order.
load_hashtags(file) ==
    IF file = FileNotFound THEN <<>>
    ELSE LET stripped == [i \in 1..Len(file) |-> Strip(file[i], Whitespace)]
         IN  SelectSeq(stripped, StartsWithHash)

\* " ".join(tags)
RECURSIVE Join(_)
Join(tags) ==
    IF tags = <<>> THEN <<>>
    ELSE IF Len(tags) = 1 THEN tags[1]
    ELSE tags[1] \o <<" ">> \o Join(Tail(tags))

Min(a, b) == IF a <= b THEN a ELSE b

\* random.sample(population, n): n distinct positions of the population,
\* in any order.
SamplePositions(population, n) ==
    {s \in [1..n -> 1..Len(population)] :
        \A i, j \in 1..n : i # j => s[i] # s[j]}

NumHashtags == {0, 1, 2, DEFAULT_HASHTAG_COUNT}

HashtagInit ==
    /\ pc = "Caption"
    /\ now = 0
    /\ tokenFile = NoTokenFile
    /\ dirExists = TRUE
    /\ localFiles = {}
    /\ remoteDir = {}
    /\ igPosts = {}
    /\ selected = NoFile
    /\ server_filename = NoName
    /\ res = NoResponse
    /\ story_res = NoResponse
    /\ calls = <<>>
    /\ cycleStartFiles = {}
    /\ test_token = NoToken
    /\ selectedEarlier = {}
    /\ mgr = TokenManager(NoTokenFile)
    /\ tokenCall = NoTokenCall
    /\ remaining = 0
    /\ slept = 0
    /\ waitRange = <<0, 0>>
    /\ remoteAtStart = {}
    /\ \E file \in HashtagFiles \cup {FileNotFound} : hashtags = load_hashtags(file)
    /\ selected_hashtags = <<>>

get_random_hashtags ==
    /\ pc = "Caption"
    /\ \E num_hashtags \in NumHashtags :
        IF hashtags = <<>>
        THEN /\ selected_hashtags' = <<>>
             /\ calls' = Append(calls, Call("get_random_hashtags", NoName, num_hashtags, <<>>))
        ELSE \E s \in SamplePositions(hashtags, Min(num_hashtags, Len(hashtags))) :
             /\ selected_hashtags' = [i \in DOMAIN s |-> hashtags[s[i]]]
             /\ calls' = Append(calls, Call("get_random_hashtags", NoName, num_hashtags,
                                             Join(selected_hashtags')))
    /\ pc' = "Captioned"
    /\ UNCHANGED <<now, tokenFile, dirExists, localFiles, remoteDir, igPosts, selected,
                   server_filename, res, story_res, cycleStartFiles, test_token,
                   selectedEarlier, mgr, tokenCall, remaining, slept, waitRange,
                   remoteAtStart, hashtags>>

SpecHashtags == HashtagInit /\ [][get_random_hashtags]_vars

(***************************************************************************)
(* The Token Store on its own: one InstagramTokenManager, mgr, loaded from *)
(* the record and used over days; the lookups of the normal run, each on a *)
(* manager of its own; and the exchange the operator's setup makes.        *)
(***************************************************************************)
runVars == <<pc, dirExists, localFiles, remoteDir, igPosts, cycleVars, test_token,
             selectedEarlier, auxVars>>

NewTokens == {"T2"}

TokInit ==
    /\ pc = "TokenStore"
    /\ now = 0
    /\ tokenFile \in TokenStoreFiles
    /\ mgr = TokenManager(tokenFile)
    /\ tokenCall = NoTokenCall
    /\ dirExists = FALSE
    /\ localFiles = {}
    /\ remoteDir = {}
    /\ igPosts = {}
    /\ selected = NoFile
    /\ server_filename = NoName
    /\ res = NoResponse
    /\ story_res = NoResponse
    /\ calls = <<>>
    /\ cycleStartFiles = {}
    /\ test_token = NoToken
    /\ selectedEarlier = {}
    /\ AuxInit

\* What is remembered of an operation: its result, the requests it made,
\* the answer of the live validation, the state it started from, and the
\* operation before it.
TokenRecord(op, ok, token, net, live) ==
    [op |-> op, ok |-> ok, token |-> token, net |-> net, today |-> now, live |-> live,
     mgrBefore |-> mgr, fileBefore |-> tokenFile,
     prev |-> [op |-> tokenCall.op, ok |-> tokenCall.ok, net |-> tokenCall.net]]

TokIsValid ==
    /\ pc = "TokenStore"
    /\ \E live \in LiveOutcomes :
         /\ mgr' = ManagerAfterValid(mgr, now, live)
         /\ tokenCall' = TokenRecord("is_token_valid", is_token_valid(mgr, now, live),
                                     NoToken, TokenRequests(mgr), live)
    /\ UNCHANGED <<now, tokenFile, runVars>>

TokGetInfo ==
    /\ pc = "TokenStore"
    /\ \E live \in LiveOutcomes :
         /\ mgr' = ManagerAfterInfo(mgr, now, live)
         /\ tokenCall' = TokenRecord("get_token_info", get_token_info(mgr, live),
                                     NoToken, InfoRequests(mgr), live)
    /\ UNCHANGED <<now, tokenFile, runVars>>

TokGetValid ==
    /\ pc = "TokenStore"
    /\ \E live \in LiveOutcomes :
         /\ mgr' = ManagerAfterValid(mgr, now, live)
         /\ tokenCall' = TokenRecord("get_valid_token", is_token_valid(mgr, now, live),
                                     get_valid_token(mgr, now, live),
                                     TokenRequests(mgr), live)
    /\ UNCHANGED <<now, tokenFile, runVars>>

\* get_current_access_token, as main and the publishers call it: a manager
\* of its own, dropped on return.
TokLookup ==
    /\ pc = "TokenStore"
    /\ \E live \in LiveOutcomes, write \in WriteOutcomes :
         LET token == get_current_access_token(tokenFile, now, live)
         IN  /\ tokenFile' = LookupFile(tokenFile, now, live, write)
             /\ tokenCall' = TokenRecord("get_current_access_token", token # NoToken,
                                         token, TokenRequests(TokenManager(tokenFile)),
                                         live)
    /\ UNCHANGED <<now, mgr, runVars>>

\* exchange_for_long_lived_token on mgr; setup_token calls it on a manager
\* it has just loaded.
TokExchange ==
    /\ pc = "TokenStore"
    /\ \E answer \in ExchangeOutcomes, new \in NewTokens, write \in WriteOutcomes :
         /\ mgr' = ManagerAfterExchange(mgr, now, answer, new)
         /\ tokenFile' = FileAfterExchange(mgr, tokenFile, now, answer, new, write)
         /\ tokenCall' = TokenRecord("exchange_for_long_lived_token",
                                     ExchangeOk(answer),
                                     IF ExchangeOk(answer) THEN new ELSE NoToken,
                                     <<"GET oauth/access_token">>, answer)
    /\ UNCHANGED <<now, runVars>>

\* The process starts again: mgr is a manager newly loaded from the record.
TokLoad ==
    /\ pc = "TokenStore"
    /\ mgr' = TokenManager(tokenFile)
    /\ tokenCall' = TokenRecord("__init__", mgr'.current_token # NoToken, NoToken,
                                <<>>, "none")
    /\ UNCHANGED <<now, tokenFile, runVars>>

TokTick ==
    /\ pc = "TokenStore"
    /\ now < MaxDay
    /\ now' = now + 1
    /\ UNCHANGED <<tokenVars, runVars>>

TokNext ==
    \/ TokIsValid
    \/ TokGetInfo
    \/ TokGetValid
    \/ TokLookup
    \/ TokExchange
    \/ TokLoad
    \/ TokTick

SpecToken == TokInit /\ [][TokNext]_vars

(***************************************************************************)
(* Reading the calls of a cycle.  pc = "SelectFile" with calls made is the *)
(* moment a cycle is over and the next has not started.                    *)
(***************************************************************************)
Called(op) == \E i \in DOMAIN calls : calls[i].op = op
CalledWith(op, result) ==
    \E i \in DOMAIN calls : calls[i].op = op /\ calls[i].result = result
CycleOver == pc = "SelectFile" /\ calls # <<>>
PublisherOps == {"post_image", "post_video", "post_story", "publish_container"}
LongWait == WaitCall(MIN_DELAY_MINUTES, MAX_DELAY_MINUTES)
ShortWaitCall == WaitCall(SHORT_DELAY_MIN_MINUTES, SHORT_DELAY_MAX_MINUTES)
OpsAfter(i) == [k \in 1..(Len(calls) - i) |-> calls[i + k].op]

\* After call i the cycle does the cleanup and the long wait, and nothing else.
CleanupFollows(i) ==
    \/ pc = "CleanupRemote" /\ OpsAfter(i) = <<>>
    \/ pc = "CleanupLocal" /\ OpsAfter(i) = <<"delete_from_sftp">>
    \/ pc = "Idle" /\ OpsAfter(i) = <<"delete_from_sftp", "delete_file">>
    \/ /\ pc = "SelectFile"
       /\ OpsAfter(i) = <<"delete_from_sftp", "delete_file", "wait_until_scheduled_time">>
       /\ calls[i + 3] = LongWait

(***************************************************************************)
(* C1.  As claimed: in every cycle in which upload_to_sftp returned, both  *)
(* delete_from_sftp and delete_file are called before the cycle ends, on   *)
(* every exit path.                                                        *)
(***************************************************************************)
C1_CleanupOnEveryExit ==
    (CycleOver /\ CalledWith("upload_to_sftp", "returned")) =>
        (Called("delete_from_sftp") /\ Called("delete_file"))

\* C1 as amended: in every cycle in which upload_to_sftp returned,
\* delete_from_sftp is called before the cycle ends on every exit path, and
\* delete_file is called on every exit path but the reachability failure.
C1_CleanupButProbeFailure ==
    (CycleOver /\ CalledWith("upload_to_sftp", "returned")) =>
        /\ Called("delete_from_sftp")
        /\ Called("delete_file") <=> CalledWith("test_url_accessibility", "True")

C1_Witness ==
    /\ CycleOver
    /\ CalledWith("upload_to_sftp", "returned")
    /\ CalledWith("publish_container", "error")
    /\ Called("delete_from_sftp")
    /\ Called("delete_file")

(***************************************************************************)
(* C2.  No orphaned staged artifact: at the start of a cycle and in Idle   *)
(* the remote directory holds no file an earlier cycle put there (the      *)
(* directory starts empty and only upload_to_sftp adds to it).             *)
(***************************************************************************)
C2_NoOrphan == pc \in {"SelectFile", "Idle"} => remoteDir = {}

(***************************************************************************)
(* C3.  No publisher call is made in a cycle unless the reachability probe *)
(* of that cycle succeeded before it; and a cycle whose probe failed has   *)
(* called delete_from_sftp for the staged name, and no publisher, by the   *)
(* time it is over.                                                        *)
(***************************************************************************)
C3_ProbeGatesPublish ==
    /\ \A i \in DOMAIN calls :
         calls[i].op \in PublisherOps =>
            \E j \in 1..(i - 1) :
               /\ calls[j].op = "test_url_accessibility"
               /\ calls[j].result = "True"
    /\ (CycleOver /\ CalledWith("test_url_accessibility", "False")) =>
         /\ \E i, j \in DOMAIN calls :
              /\ calls[i].op = "upload_to_sftp" /\ calls[i].result = "returned"
              /\ calls[j].op = "delete_from_sftp" /\ calls[j].name = calls[i].name
              /\ i < j
         /\ \A i \in DOMAIN calls : calls[i].op \notin PublisherOps

C3_Witness ==
    /\ CycleOver
    /\ CalledWith("test_url_accessibility", "False")
    /\ CalledWith("delete_from_sftp", "done")
    /\ server_filename \notin remoteDir

(***************************************************************************)
(* C4.  A cycle whose reachability probe failed leaves the local files as  *)
(* they were when it started and does not call delete_file.                *)
(***************************************************************************)
C4_ProbeFailureKeepsLocal ==
    (CycleOver /\ CalledWith("test_url_accessibility", "False")) =>
        /\ ~Called("delete_file")
        /\ localFiles = cycleStartFiles

C4_Witness ==
    /\ CycleOver
    /\ CalledWith("test_url_accessibility", "False")
    /\ selected \in localFiles
    /\ calls[Len(calls)].op = "delete_from_sftp"

(***************************************************************************)
(* C5.  random_file_info returns no file exactly when the directory is     *)
(* missing or holds no file, and then the cycle is that call followed by   *)
(* the long wait and nothing else.                                         *)
(***************************************************************************)
C5_NoFileGoesIdle ==
    calls # <<>> =>
        /\ calls[1].op = "random_file_info"
        /\ calls[1].result = "none" <=> (~dirExists \/ cycleStartFiles = {})
        /\ calls[1].result = "none" =>
             \/ pc = "Idle" /\ calls = <<calls[1]>>
             \/ pc = "SelectFile" /\ calls = <<calls[1], LongWait>>

C5_Witness ==
    /\ pc = "SelectFile"
    /\ Len(calls) = 2
    /\ calls[1].result = "none"
    /\ calls[2] = LongWait

(***************************************************************************)
(* C6.  When validate_media_file rejects the file the cycle is over at     *)
(* once: the rejection is its last call and control is at SelectFile.      *)
(***************************************************************************)
C6_RejectRestarts ==
    \A i \in DOMAIN calls :
        (calls[i].op = "validate_media_file" /\ calls[i].result # "Valid") =>
            /\ pc = "SelectFile"
            /\ i = Len(calls)
            /\ i = 2

C6_Witness ==
    /\ pc = "SelectFile"
    /\ Len(calls) = 2
    /\ calls[2].op = "validate_media_file"
    /\ calls[2].result = "Image too large"

(***************************************************************************)
(* C7.  When upload_to_sftp raises the cycle is over at once: the upload   *)
(* is its last call, control is at SelectFile, and main has not stopped.   *)
(***************************************************************************)
C7_UploadRaiseRestarts ==
    /\ pc # "Crashed"
    /\ \A i \in DOMAIN calls :
         (calls[i].op = "upload_to_sftp" /\ calls[i].result = "raised") =>
            /\ pc = "SelectFile"
            /\ i = Len(calls)

C7_Witness ==
    /\ pc = "SelectFile"
    /\ Len(calls) = 3
    /\ calls[3].op = "upload_to_sftp"
    /\ calls[3].result = "raised"

(***************************************************************************)
(* C8.  When post_image returns an error, publish_container and post_story *)
(* are not called in that cycle, and what follows is delete_from_sftp,     *)
(* delete_file and the long wait.                                          *)
(***************************************************************************)
C8_ImageErrorStillCleans ==
    \A i \in DOMAIN calls :
        (calls[i].op = "post_image" /\ calls[i].result = "error") =>
            /\ ~Called("publish_container")
            /\ ~Called("post_story")
            /\ CleanupFollows(i)

C8_Witness ==
    /\ CycleOver
    /\ CalledWith("post_image", "error")
    /\ Called("delete_file")
    /\ calls[Len(calls)] = LongWait

(***************************************************************************)
(* C9.  Story posting is best-effort: when the story creation or the story *)
(* publish fails after the image was published, the image stays on the     *)
(* account, nothing but the cleanup and the long wait follows, and a       *)
(* deletion that did not fail has removed the staged artifact and the      *)
(* local file.                                                             *)
(***************************************************************************)
StoryFailedAt(i) ==
    \/ calls[i].op = "post_story" /\ calls[i].result # "id"
    \/ /\ calls[i].op = "publish_container"
       /\ calls[i].name = <<"STORIES">>
       /\ calls[i].result = "error"

ImagePublished ==
    \E j \in DOMAIN calls :
        /\ calls[j].op = "publish_container"
        /\ calls[j].name = <<"IMAGE">>
        /\ calls[j].result = "id"

C9_StoryBestEffort ==
    \A i \in DOMAIN calls :
        StoryFailedAt(i) =>
            /\ ImagePublished => <<<<"IMAGE">>, server_filename>> \in igPosts
            /\ CleanupFollows(i)
            /\ CalledWith("delete_from_sftp", "done") => server_filename \notin remoteDir
            /\ CalledWith("delete_file", "removed") => selected \notin localFiles

C9_Witness ==
    /\ CycleOver
    /\ CalledWith("post_story", "error")
    /\ <<<<"IMAGE">>, server_filename>> \in igPosts
    /\ server_filename \notin remoteDir
    /\ selected \notin localFiles

(***************************************************************************)
(* C10.  On the video path publish_container is never called; when         *)
(* post_video returns no error exactly one short wait follows, then the    *)
(* cleanup and the long wait; when it returns an error the cleanup follows *)
(* without the short wait.                                                 *)
(***************************************************************************)
C10_VideoPath ==
    \A i \in DOMAIN calls :
        calls[i].op = "post_video" =>
            /\ ~Called("publish_container")
            /\ IF calls[i].result = "error"
               THEN CleanupFollows(i)
               ELSE \/ pc = "ShortWait" /\ i = Len(calls)
                    \/ /\ i < Len(calls)
                       /\ calls[i + 1] = ShortWaitCall
                       /\ CleanupFollows(i + 1)

C10_Witness ==
    /\ CycleOver
    /\ CalledWith("post_video", "id")
    /\ \E i \in DOMAIN calls : calls[i] = ShortWaitCall
    /\ calls[Len(calls)] = LongWait
    /\ selected \notin localFiles

(***************************************************************************)
(* C11.  publish_container is called only with the id that a post_image or *)
(* post_story of the same cycle returned earlier; after a creation         *)
(* response with neither 'error' nor 'id' no publish_container follows in  *)
(* the cycle; and each kind of container is published at most once in a    *)
(* cycle.                                                                  *)
(***************************************************************************)
CreationOf(kind) == IF kind = <<"IMAGE">> THEN "post_image" ELSE "post_story"

C11_TwoPhase ==
    /\ \A j \in DOMAIN calls :
          calls[j].op = "publish_container" =>
              \E i \in 1..(j - 1) :
                  /\ calls[i].op = CreationOf(calls[j].name)
                  /\ calls[i].result = "id"
                  /\ calls[i].id = calls[j].id
    /\ \A i \in DOMAIN calls :
          (calls[i].op \in {"post_image", "post_story"} /\ calls[i].result = "other") =>
              \A j \in (i + 1)..Len(calls) : calls[j].op # "publish_container"
    /\ \A j, k \in DOMAIN calls :
          (/\ calls[j].op = "publish_container"
           /\ calls[k].op = "publish_container"
           /\ calls[j].name = calls[k].name) => j = k

C11_Witness ==
    /\ CycleOver
    /\ \E i, j \in DOMAIN calls :
          /\ calls[i].op = "publish_container" /\ calls[i].name = <<"IMAGE">>
          /\ calls[j].op = "publish_container" /\ calls[j].name = <<"STORIES">>
          /\ calls[i].id # calls[j].id

(***************************************************************************)
(* C12.  As claimed: every publisher call asks the Token Store first, and  *)
(* a call that got no token returns the error and makes no network request *)
(* of any kind.                                                            *)
(***************************************************************************)
C12_NoRequestWithoutToken ==
    \A i \in DOMAIN calls :
        (calls[i].op \in PublisherOps /\ calls[i].token = NoToken) =>
            (calls[i].result = "error" /\ calls[i].net = <<>>)

\* C12 as amended: every publisher call asks the Token Store first; a call
\* that got no token returns the error and sends nothing to the publishing
\* API, the only request it can have made being the Token Store's own live
\* validation of a token with no known expiry; a call that got a token
\* sends exactly one request to the publishing API, after the lookup.
C12_NoPostWithoutToken ==
    \A i \in DOMAIN calls :
        calls[i].op \in PublisherOps =>
            IF calls[i].token = NoToken
            THEN /\ calls[i].result = "error"
                 /\ calls[i].net \in {<<>>, <<"GET me">>}
            ELSE calls[i].net \in {<<"POST">>, <<"GET me", "POST">>}

C12_Witness ==
    \E i, j \in DOMAIN calls :
        /\ calls[i].op = "post_image" /\ calls[i].token # NoToken
        /\ calls[j].op = "publish_container" /\ calls[j].token = NoToken
        /\ calls[j].result = "error"
        /\ calls[j].net = <<"GET me">>

(***************************************************************************)
(* C13.  In a cycle upload_to_sftp, test_url_accessibility, post_image,    *)
(* post_video and post_story are each called at most once: no step, failed *)
(* or not, is made again before the next file selection.                   *)
(***************************************************************************)
OnceOps == {"upload_to_sftp", "test_url_accessibility", "post_image", "post_video",
            "post_story"}

C13_NoRetry ==
    \A i, j \in DOMAIN calls :
        (calls[i].op \in OnceOps /\ calls[i].op = calls[j].op) => i = j

C13_Witness ==
    /\ CycleOver
    /\ CalledWith("upload_to_sftp", "raised")
    /\ calls[Len(calls)].op = "upload_to_sftp"

(***************************************************************************)
(* C14.  As claimed: a file selected in one cycle is never selected again  *)
(* in a later cycle, whichever step of its cycle failed.                   *)
(***************************************************************************)
C14_NeverSelectedAgain ==
    selected # NoFile => selected \notin selectedEarlier

\* C14 as amended: the selected file is in the directory until delete_file
\* removes it and not after, so a file that delete_file removed is never
\* selected again; a file of an earlier cycle is selected again only while
\* it is still in the directory, its cycle having ended before delete_file
\* or its removal having failed.
C14_ConsumedWhenRemoved ==
    /\ selected # NoFile =>
          (selected \in localFiles <=> ~CalledWith("delete_file", "removed"))
    /\ \A f \in selectedEarlier :
          f \notin localFiles =>
              (selected # f \/ CalledWith("delete_file", "removed"))

C14_Witness ==
    /\ pc = "ValidateFile"
    /\ selected \in selectedEarlier
    /\ \E f \in selectedEarlier : f \notin localFiles /\ f # selected

(***************************************************************************)
(* C20.  When the startup token check of main() obtains no token, main     *)
(* returns without entering the loop: no file is selected, nothing is      *)
(* staged, published or deleted.                                           *)
(***************************************************************************)
C20_NoTokenNoLoop ==
    (pc # "Startup" /\ test_token = NoToken) =>
        /\ pc = "Exited"
        /\ calls = <<>>
        /\ selected = NoFile
        /\ remoteDir = {}
        /\ igPosts = {}
        /\ localFiles = cycleStartFiles

C20_Witness ==
    /\ pc = "Exited"
    /\ test_token = NoToken
    /\ tokenFile.access_token # NoToken
    /\ localFiles # {}

(***************************************************************************)
(* C15.  For a present token with known expiry = now + N days,             *)
(* is_token_valid is false whenever N <= TOKEN_EXPIRY_WARNING_DAYS and     *)
(* true otherwise, so a token exactly at the warning horizon is invalid;   *)
(* get_valid_token returns the token exactly when is_token_valid is true,  *)
(* and nothing otherwise.                                                  *)
(***************************************************************************)
DaysLeft == tokenCall.mgrBefore.token_expires_at - tokenCall.today
KnownExpiry ==
    /\ tokenCall.mgrBefore.current_token # NoToken
    /\ tokenCall.mgrBefore.token_expires_at # NoExpiry

TokenAbsent == tokenCall.mgrBefore.current_token = NoToken
ExpiryUnknown ==
    /\ tokenCall.mgrBefore.current_token # NoToken
    /\ tokenCall.mgrBefore.token_expires_at = NoExpiry

C16_InvalidWithoutExpiry ==
    tokenCall.op = "is_token_valid" =>
        /\ TokenAbsent => ~tokenCall.ok
        /\ ExpiryUnknown => (~tokenCall.ok /\ tokenCall.net = <<"GET me">>)

\* C16 as amended: is_token_valid is false when the token is absent, and no
\* request is made; when the token is present with no known expiry the live
\* validation call is made and decides: the token is valid exactly when the
\* call answers 200 with a body that parses, and invalid otherwise.
C16_LiveValidationDecides ==
    tokenCall.op = "is_token_valid" =>
        /\ TokenAbsent => (~tokenCall.ok /\ tokenCall.net = <<>>)
        /\ ExpiryUnknown =>
              /\ tokenCall.net = <<"GET me">>
              /\ tokenCall.ok <=> tokenCall.live = "200"

C16_Witness ==
    /\ tokenCall.op = "is_token_valid"
    /\ ExpiryUnknown
    /\ tokenCall.net = <<"GET me">>
    /\ tokenCall.ok

(***************************************************************************)
(* C17.  As claimed: when the exchange endpoint answers 200 with a token,  *)
(* exchange_for_long_lived_token returns True with the new token and the   *)
(* expiry now + LONG_LIVED_TOKEN_DURATION_DAYS held by the manager and     *)
(* persisted in the record; on any failure it returns False and the        *)
(* manager's token and expiry and the persisted record are as before.      *)
(***************************************************************************)
C17_ExchangeStoresAndPersists ==
    tokenCall.op = "exchange_for_long_lived_token" =>
        IF ExchangeOk(tokenCall.live)
        THEN /\ tokenCall.ok
             /\ mgr = [current_token |-> tokenCall.token,
                       token_expires_at |->
                           tokenCall.today + LONG_LIVED_TOKEN_DURATION_DAYS]
             /\ tokenFile = [access_token |-> mgr.current_token,
                             expires_at |-> mgr.token_expires_at, exists |-> TRUE]
        ELSE /\ ~tokenCall.ok
             /\ mgr = tokenCall.mgrBefore
             /\ tokenFile = tokenCall.fileBefore

(***************************************************************************)
(* C18.  As claimed: the pair (token, expiry) a manager holds changes only *)
(* through a successful exchange, which replaces both together;            *)
(* is_token_valid, get_token_info and get_valid_token change neither.      *)
(***************************************************************************)
ReadingOps == {"is_token_valid", "get_token_info", "get_valid_token"}
Exchanged ==
    mgr = [current_token |-> tokenCall.token,
           token_expires_at |-> tokenCall.today + LONG_LIVED_TOKEN_DURATION_DAYS]

C18_NeverPartiallyMutated ==
    /\ tokenCall.op \in ReadingOps => mgr = tokenCall.mgrBefore
    /\ tokenCall.op = "exchange_for_long_lived_token" =>
          IF tokenCall.ok THEN Exchanged ELSE mgr = tokenCall.mgrBefore

\* C18 as amended: the token a manager holds changes only through a
\* successful exchange, which replaces token and expiry together.  The
\* expiry alone is also set, to now + LONG_LIVED_TOKEN_DURATION_DAYS, by
\* every get_token_info whose request answers 200, whether it is called
\* directly or by is_token_valid and get_valid_token for a token with no
\* known expiry; no other operation changes either.
C18_ExpiryEstimatedOnValidation ==
    /\ tokenCall.op \in ReadingOps =>
          /\ mgr.current_token = tokenCall.mgrBefore.current_token
          /\ IF tokenCall.net = <<"GET me">> /\ tokenCall.live \in {"200", "200_nojson"}
             THEN mgr.token_expires_at =
                      tokenCall.today + LONG_LIVED_TOKEN_DURATION_DAYS
             ELSE mgr.token_expires_at = tokenCall.mgrBefore.token_expires_at
    /\ tokenCall.op = "exchange_for_long_lived_token" =>
          IF tokenCall.ok THEN Exchanged ELSE mgr = tokenCall.mgrBefore
    /\ tokenCall.op = "get_current_access_token" => mgr = tokenCall.mgrBefore

C18_Witness ==
    /\ tokenCall.op = "get_valid_token"
    /\ ExpiryUnknown
    /\ mgr.current_token = tokenCall.mgrBefore.current_token
    /\ mgr.token_expires_at = tokenCall.today + LONG_LIVED_TOKEN_DURATION_DAYS

(***************************************************************************)
(* C19.  As claimed: get_valid_token never calls the exchange endpoint,    *)
(* the lookups of the normal run never write the persisted record, and     *)
(* once a lookup has returned no token every later one returns no token    *)
(* until an exchange is made.                                              *)
(***************************************************************************)
LookupOps == {"get_valid_token", "get_current_access_token"}
RepeatedLookup ==
    /\ tokenCall.op \in LookupOps
    /\ tokenCall.prev.op = tokenCall.op
    /\ ~tokenCall.prev.ok

JustScheduled == pc \in {"ShortWaitPoll", "IdleWaitPoll"} /\ slept = 0
JustReturned ==
    calls # <<>> /\ calls[Len(calls)].op = "wait_until_scheduled_time"
ShortRange == <<SHORT_DELAY_MIN_MINUTES, SHORT_DELAY_MAX_MINUTES>>
LongRange == <<MIN_DELAY_MINUTES, MAX_DELAY_MINUTES>>

ScheduledInRange ==
    JustScheduled =>
        \E d \in waitRange[1]..waitRange[2] : remaining = d * SECONDS_IN_A_MINUTE

RangeBySite ==
    /\ pc = "IdleWaitPoll" => waitRange = LongRange
    /\ pc = "ShortWaitPoll" =>
          /\ waitRange = ShortRange
          /\ calls[Len(calls)].op = "post_video"
          /\ calls[Len(calls)].result # "error"
    /\ \A i \in DOMAIN calls :
          calls[i].op = "wait_until_scheduled_time" =>
              IF i > 1 /\ calls[i - 1].op = "post_video"
              THEN calls[i] = ShortWaitCall /\ calls[i - 1].result # "error"
              ELSE calls[i] = LongWait /\ i = Len(calls) /\ pc = "SelectFile"

C21_OvershootBelowInterval ==
    /\ ScheduledInRange
    /\ RangeBySite
    /\ JustReturned =>
          /\ remaining <= 0
          /\ remaining + slept > 0
          /\ 0 - remaining < WAIT_CHECK_INTERVAL_SECONDS

\* C21 as amended: the same, but the wait returns less than the time of
\* its last sleep after the scheduled time, and a sleep takes
\* WAIT_CHECK_INTERVAL_SECONDS or longer.
C21_OvershootBelowLastSleep ==
    /\ ScheduledInRange
    /\ RangeBySite
    /\ JustReturned =>
          /\ remaining <= 0
          /\ remaining + slept > 0
          /\ slept >= WAIT_CHECK_INTERVAL_SECONDS

C21_Witness ==
    /\ JustReturned
    /\ calls[Len(calls)] = ShortWaitCall
    /\ CalledWith("post_video", "id")
    /\ 0 - remaining >= WAIT_CHECK_INTERVAL_SECONDS

(***************************************************************************)
(* C22.  delete_from_sftp for a name that is not in the remote directory   *)
(* sends no remove and only skips; calling it again leaves a directory     *)
(* that one call leaves, and after a call that deleted the name every      *)
(* further call sends no remove and changes nothing; no call ends by       *)
(* raising, whatever failed inside it.                                     *)
(***************************************************************************)
C22_DeleteIdempotent ==
    /\ \A i \in DOMAIN calls : calls[i].result # "raised"
    /\ server_filename \notin remoteAtStart =>
          /\ remoteDir = remoteAtStart
          /\ \A i \in DOMAIN calls :
                calls[i].id = 0 /\ calls[i].result \in {"skipped", "caught"}
    /\ remoteDir \in {remoteAtStart, remoteAtStart \ {server_filename}}
    /\ \A i, j \in DOMAIN calls :
          (i < j /\ calls[i].result = "deleted") =>
              /\ calls[j].id = 0
              /\ calls[j].result \in {"skipped", "caught"}
              /\ remoteDir = remoteAtStart \ {server_filename}

C22_Witness ==
    /\ Len(calls) = 2
    /\ server_filename \in remoteAtStart
    /\ calls[1].result = "deleted"
    /\ calls[2].result = "skipped"
    /\ remoteDir = remoteAtStart \ {server_filename}
    /\ remoteDir # {}

(***************************************************************************)
(* C23.  As claimed: for every file name over the alphabet,                *)
(* sanitize_filename returns a string matching ^[A-Za-z0-9._-]+$ with no   *)
(* two consecutive underscores, no underscore at the start or the end of   *)
(* its name part, and its extension in lower case.                         *)
(***************************************************************************)
SafeChars == AsciiUpper \cup AsciiLower \cup AsciiDigit \cup {".", "_", "-"}

C23_SanitizedIsSafe ==
    pc = "Sanitized" =>
        LET out == server_filename
            name == SplitExt(out)[1]
            ext == SplitExt(out)[2]
        IN  /\ out # <<>>
            /\ \A i \in DOMAIN out : out[i] \in SafeChars
            /\ \A i \in 1..(Len(out) - 1) : ~(out[i] = "_" /\ out[i + 1] = "_")
            /\ name # <<>> => (name[1] # "_" /\ name[Len(name)] # "_")
            /\ ext = StrLower(ext)

(***************************************************************************)
(* C24.  validate_media_file rejects an existing file, with the reason of  *)
(* its class, exactly when its size is strictly greater than the ceiling   *)
(* of the class (MAX_VIDEO_SIZE_MB for a video extension,                  *)
(* MAX_IMAGE_SIZE_MB otherwise) and accepts it at exactly the ceiling; a   *)
(* path that does not exist is rejected with 'File does not exist'.        *)
(***************************************************************************)
Ceiling(file) ==
    IF is_video_file(file.name) THEN MAX_VIDEO_SIZE_MB * MB_TO_BYTES
    ELSE MAX_IMAGE_SIZE_MB * MB_TO_BYTES

C24_SizeCeiling ==
    (pc # "ValidateFile" /\ Len(calls) = 1 /\ calls[1].op = "validate_media_file") =>
        IF selected \notin localFiles
        THEN calls[1].result = "File does not exist" /\ pc = "SelectFile"
        ELSE IF selected.size > Ceiling(selected)
        THEN /\ calls[1].result =
                    IF is_video_file(selected.name) THEN "Video too large"
                    ELSE "Image too large"
             /\ pc = "SelectFile"
        ELSE calls[1].result = "Valid" /\ pc = "Stage"

C24_Witness ==
    /\ pc = "Stage"
    /\ calls[1].result = "Valid"
    /\ is_video_file(selected.name)
    /\ selected.name[1] = "V"
    /\ selected.size = MAX_VIDEO_SIZE_MB * MB_TO_BYTES

(***************************************************************************)
(* C25.  get_random_hashtags(k) on a loaded pool of size P returns exactly *)
(* min(k, P) tags with no duplicates among them, for every pool the        *)
(* hashtag file can produce (a file that lists the same tag on several     *)
(* lines included), and returns empty on an empty pool.                    *)
(***************************************************************************)
NoDuplicates(tags) ==
    \A i, j \in 1..Len(tags) : i # j => tags[i] # tags[j]

C25_SampleWithoutDuplicates ==
    (pc = "Captioned" /\ Len(calls) = 1 /\ calls[1].op = "get_random_hashtags") =>
        /\ Len(selected_hashtags) = Min(calls[1].id, Len(hashtags))
        /\ NoDuplicates(selected_hashtags)
        /\ (hashtags = <<>> => calls[1].result = <<>>)

(***************************************************************************)
(* C26.  Story creation is attempted only after the image publish of the   *)
(* same cycle returned without error: post_story and the story's           *)
(* publish_container are never called in a cycle in which post_image       *)
(* failed or returned no id, or the image's publish_container failed.      *)
(***************************************************************************)
StoryCall(i) ==
    \/ calls[i].op = "post_story"
    \/ calls[i].op = "publish_container" /\ calls[i].name = <<"STORIES">>

ImagePublishedBefore(i) ==
    \E j, k \in 1..(i - 1) :
        /\ j < k
        /\ calls[j].op = "post_image" /\ calls[j].result = "id"
        /\ calls[k].op = "publish_container" /\ calls[k].name = <<"IMAGE">>
        /\ calls[k].id = calls[j].id
        /\ calls[k].result # "error"

C26_StoryOnlyAfterImagePublish ==
    /\ \A i \in DOMAIN calls : StoryCall(i) =>
        /\ ImagePublishedBefore(i)
        /\ \A j \in DOMAIN calls :
               /\ calls[j].op = "post_image" => calls[j].result = "id"
               /\ (calls[j].op = "publish_container" /\ calls[j].name = <<"IMAGE">>)
                      => calls[j].result # "error"
    /\ pc \in {"PostStory", "PublishStory"} => ImagePublishedBefore(Len(calls) + 1)

C26_Witness ==
    /\ \E i \in DOMAIN calls :
        /\ calls[i].op = "publish_container" /\ calls[i].name = <<"STORIES">>
        /\ calls[i].result = "id"
    /\ \E k \in DOMAIN calls :
        /\ calls[k].op = "publish_container" /\ calls[k].name = <<"IMAGE">>
        /\ calls[k].result = "other"

(***************************************************************************)
(* C27.  Within a cycle delete_from_sftp is called only after the last     *)
(* publisher call of the cycle (container creation, publish, story         *)
(* creation, story publish, and the wait after a video), only with the     *)
(* name that the cycle's upload_to_sftp returned, and at most once.        *)
(***************************************************************************)
C27_RemoteDeleteLastAndOnce ==
    \A i \in DOMAIN calls : calls[i].op = "delete_from_sftp" =>
        /\ \A j \in DOMAIN calls : j > i =>
               /\ calls[j].op \notin PublisherOps
               /\ calls[j] # ShortWaitCall
        /\ pc \in {"CleanupLocal", "Idle", "SelectFile"}
        /\ \E j \in 1..(i - 1) :
               /\ calls[j].op = "upload_to_sftp" /\ calls[j].result = "returned"
               /\ calls[i].name = calls[j].name
        /\ \A j \in DOMAIN calls : calls[j].op = "upload_to_sftp" => calls[j].name = calls[i].name
        /\ \A j \in DOMAIN calls : calls[j].op = "delete_from_sftp" => j = i

C27_Witness ==
    /\ CycleOver
    /\ \E i, j, k \in DOMAIN calls :
        /\ i < j /\ j < k
        /\ calls[i].op = "post_video" /\ calls[i].result = "id"
        /\ calls[j] = ShortWaitCall
        /\ calls[k].op = "delete_from_sftp"
        /\ calls[k].name = server_filename
        /\ server_filename = sanitize_filename(selected.name)
        /\ server_filename # selected.name

(***************************************************************************)
(* C28.  A local media file is deleted only in a cycle in which            *)
(* validation, staging and the reachability probe all succeeded and a      *)
(* container creation (post_image or post_video) was attempted, and only   *)
(* after the remote deletion attempt of that cycle; the file deleted is    *)
(* the one selected in that cycle, and at most one is deleted per cycle.   *)
(***************************************************************************)
C28_LocalDeleteOnlyAfterAttempt ==
    /\ cycleStartFiles \ localFiles \subseteq {selected}
    /\ localFiles \subseteq cycleStartFiles
    /\ localFiles # cycleStartFiles => Called("delete_file")
    /\ \A i \in DOMAIN calls : calls[i].op = "delete_file" =>
        /\ calls[i].name = selected.name
        /\ \A j \in DOMAIN calls : calls[j].op = "delete_file" => j = i
        /\ \E d \in 1..(i - 1) :
            /\ calls[d].op = "delete_from_sftp"
            /\ \E c \in 1..(d - 1) :
                /\ calls[c].op \in {"post_image", "post_video"}
                /\ \E p \in 1..(c - 1) :
                    /\ calls[p].op = "test_url_accessibility" /\ calls[p].result = "True"
                    /\ \E u \in 1..(p - 1) :
                        /\ calls[u].op = "upload_to_sftp" /\ calls[u].result = "returned"
                        /\ \E v \in 1..(u - 1) :
                            /\ calls[v].op = "validate_media_file"
                            /\ calls[v].result = "Valid"
                            /\ calls[v].name = selected.name

C28_Witness ==
    /\ Called("delete_file")
    /\ selected \in cycleStartFiles
    /\ selected \notin localFiles
    /\ CalledWith("post_image", "error")

=============================================================================
